---- MODULE Spec2Model ----
(***************************************************************************)
(* Model of src/app.py: the functions greet, add and multiply, the entry   *)
(* point main, and the module's load (run as a script or imported).        *)
(*                                                                         *)
(* Python values are tagged records: t is the type tag ("none", "int",     *)
(* "str") and v the payload.  A str is a sequence of one-character         *)
(* strings, so that formatting and concatenation are computed, not assumed.*)
(***************************************************************************)
EXTENDS Integers, Sequences, FiniteSets, TLC

\* ---------------------------------------------------------------- bounds
MaxLen == 2          \* longest name passed by an importing caller
MaxInt == 3          \* integer operands range over -MaxInt..MaxInt
NumThreads == 2      \* concurrent callers in ThreadSpec

\* ---------------------------------------------------------------- values
PyNone == [t |-> "none", v |-> <<>>]
PyInt(n) == [t |-> "int", v |-> <<n>>]
PyStr(s) == [t |-> "str", v |-> s]

IntOf(x) == x.v[1]

Alphabet == {"a", " "}

RECURSIVE SeqsUpTo(_)
SeqsUpTo(n) ==
    IF n = 0 THEN {<<>>}
    ELSE LET shorter == SeqsUpTo(n - 1)
         IN  shorter \cup {Append(s, c) : s \in {x \in shorter : Len(x) = n - 1}, c \in Alphabet}

Names == {PyStr(s) : s \in SeqsUpTo(MaxLen)}
Ints == {PyInt(n) : n \in (0 - MaxInt)..MaxInt}
Values == {PyNone} \cup Ints \cup Names

\* ------------------------------------------------------ Python semantics
\* Outcome of a call: a returned value or a raised exception.
Return(x) == [kind |-> "return", val |-> x, exc |-> "", msg |-> ""]
Raise(e, m) == [kind |-> "raise", val |-> PyNone, exc |-> e, msg |-> m]

\* bool(x): None, 0 and "" are falsy.
PyTruthy(x) ==
    CASE x.t = "none" -> FALSE
      [] x.t = "int" -> IntOf(x) # 0
      [] x.t = "str" -> Len(x.v) > 0

DigitChars == <<"0", "1", "2", "3", "4", "5", "6", "7", "8", "9">>

RECURSIVE Digits(_)
Digits(n) ==
    IF n < 10 THEN <<DigitChars[n + 1]>>
    ELSE Digits(n \div 10) \o <<DigitChars[(n % 10) + 1]>>

\* format(x, "") as used by an f-string replacement field and by print.
PyFormat(x) ==
    CASE x.t = "none" -> <<"N", "o", "n", "e">>
      [] x.t = "int" -> IF IntOf(x) < 0 THEN <<"-">> \o Digits(0 - IntOf(x))
                        ELSE Digits(IntOf(x))
      [] x.t = "str" -> x.v

RECURSIVE Repeat(_, _)
Repeat(s, n) == IF n <= 0 THEN <<>> ELSE s \o Repeat(s, n - 1)

\* a + b
PyAdd(a, b) ==
    CASE a.t = "int" /\ b.t = "int" -> Return(PyInt(IntOf(a) + IntOf(b)))
      [] a.t = "str" /\ b.t = "str" -> Return(PyStr(a.v \o b.v))
      [] OTHER -> Raise("TypeError", "unsupported operand type(s) for +")

\* a * b
PyMul(a, b) ==
    CASE a.t = "int" /\ b.t = "int" -> Return(PyInt(IntOf(a) * IntOf(b)))
      [] a.t = "str" /\ b.t = "int" -> Return(PyStr(Repeat(a.v, IntOf(b))))
      [] a.t = "int" /\ b.t = "str" -> Return(PyStr(Repeat(b.v, IntOf(a))))
      [] OTHER -> Raise("TypeError", "unsupported operand type(s) for *")

\* ------------------------------------------------------------ src/app.py
\* Mutant: only None is rejected (`if name is None`).
GreetTestNoneOnly(name) == name.t = "none"

\* Mutant: the name is stripped before the test (`if not name.strip()`).
GreetTestStripped(name) ==
    IF name.t = "str" THEN \A i \in 1..Len(name.v) : name.v[i] = " " ELSE ~PyTruthy(name)

\* Line 7: `if not name`.
GreetTest(name) == ~PyTruthy(name)

\* Line 8: `raise ValueError("Name cannot be empty")`.
GreetRaise == Raise("ValueError", "Name cannot be empty")

\* Mutant: the comma of the greeting is lost.
GreetReturnNoComma(name) ==
    Return(PyStr(<<"H", "e", "l", "l", "o", " ">> \o PyFormat(name) \o <<"!">>))

\* Line 9: `return f"Hello, {name}!"`.
GreetReturn(name) ==
    Return(PyStr(<<"H", "e", "l", "l", "o", ",", " ">> \o PyFormat(name) \o <<"!">>))

greet(name) == IF GreetTest(name) THEN GreetRaise ELSE GreetReturn(name)

\* Mutant: subtraction in place of addition.
addMinus(a, b) ==
    IF a.t = "int" /\ b.t = "int" THEN Return(PyInt(IntOf(a) - IntOf(b))) ELSE PyAdd(a, b)

add(a, b) == PyAdd(a, b)

\* Mutant: addition in place of multiplication.
multiplyPlus(a, b) == PyAdd(a, b)

\* Mutant: the second operand is dropped.
multiplyLeft(a, b) == Return(a)

multiply(a, b) == PyMul(a, b)

\* A call as its callee sees it: the function and its bound parameters.
Call(op, a, b) == [op |-> op, a |-> a, b |-> b]
NoCall == Call("none", PyNone, PyNone)

\* What a call evaluates to when nothing else runs.
CallResult(c) ==
    CASE c.op = "greet" -> greet(c.a)
      [] c.op = "add" -> add(c.a, c.b)
      [] c.op = "multiply" -> multiply(c.a, c.b)

\* Literals of main.
Banner == <<"U+1F680", " ", "J", "e", "n", "k", "i", "n", "s", " ", "D", "e", "m", "o", " ",
            "P", "y", "t", "h", "o", "n", " ", "A", "p", "p">>
\* Mutant: main greets the empty name.
MainNameEmpty == PyStr(<<>>)

MainName == PyStr(<<"J", "e", "n", "k", "i", "n", "s">>)
AddPrefix == <<"2", " ", "+", " ", "3", " ", "=", " ">>
MulPrefix == <<"4", " ", "*", " ", "5", " ", "=", " ">>

\* Mutant: the last two statements of main are swapped.
MainAfterSwapped(line) ==
    CASE line = "main21" -> "main22"
      [] line = "main22" -> "main24"
      [] line = "main24" -> "main23"
      [] line = "main23" -> "exited"

\* The statement main runs after the one at `line`.
MainAfter(line) ==
    CASE line = "main21" -> "main22"
      [] line = "main22" -> "main23"
      [] line = "main23" -> "main24"
      [] line = "main24" -> "exited"

\* ----------------------------------------------------------------- state
VARIABLES
    mode,       \* "script": run as __main__; "import": loaded by a caller
    pc,         \* "load", "idle", "main21".."main24", "exited", "crashed"
    frame,      \* the call in progress or last made
    ret,        \* outcome of the last call
    stdout,     \* lines printed so far
    stderr,     \* uncaught exception reported at the process boundary
    exitCode,   \* exit status; <<>> while the process runs
    frames,     \* ThreadSpec: the frame of each thread's call
    tpc,        \* ThreadSpec: each thread's position
    targs,      \* ThreadSpec: the call each thread made
    tret        \* ThreadSpec: the outcome each thread got

vars == <<mode, pc, frame, ret, stdout, stderr, exitCode, frames, tpc, targs, tret>>
procVars == <<mode, pc, frame, ret, stdout, stderr, exitCode>>
threadVars == <<frames, tpc, targs, tret>>

Threads == 1..NumThreads

Init ==
    /\ mode \in {"script", "import"}
    /\ pc = "load"
    /\ frame = NoCall
    /\ ret = Return(PyNone)
    /\ stdout = <<>>
    /\ stderr = <<>>
    /\ exitCode = <<>>
    /\ frames = [t \in Threads |-> NoCall]
    /\ tpc = [t \in Threads |-> "idle"]
    /\ targs = [t \in Threads |-> NoCall]
    /\ tret = [t \in Threads |-> Return(PyNone)]

\* Mutant: the exception is caught and the caller carries on.
Swallowed(r) ==
    /\ pc' = "idle"
    /\ UNCHANGED <<stderr, exitCode>>

\* An exception nobody catches ends the process with a non-zero status.
Uncaught(r) ==
    /\ pc' = "crashed"
    /\ stderr' = <<r.exc, r.msg>>
    /\ exitCode' = <<1>>

\* Lines 26-27: `if __name__ == "__main__": main()`.
Load ==
    /\ pc = "load"
    /\ pc' = IF mode = "script" THEN "main21" ELSE "idle"
    /\ UNCHANGED <<mode, frame, ret, stdout, stderr, exitCode, threadVars>>

\* print(x): one line, str(x), appended to standard output.
PyPrint(line) == stdout' = Append(stdout, line)

\* main moves on to its next statement; falling off its end exits with 0.
Advance(line) ==
    /\ pc' = MainAfter(line)
    /\ exitCode' = IF MainAfter(line) = "exited" THEN <<0>> ELSE exitCode
    /\ UNCHANGED stderr

\* Line 21: print("<rocket> Jenkins Demo Python App").
MainBanner ==
    /\ pc = "main21"
    /\ PyPrint(Banner)
    /\ Advance("main21")
    /\ UNCHANGED <<mode, frame, ret, threadVars>>

\* A statement of main that prints prefix + format(call's value), or lets the
\* call's exception out of main.
MainCallAndPrint(line, c, prefix) ==
    /\ frame' = c
    /\ ret' = CallResult(c)
    /\ IF ret'.kind = "raise"
       THEN Uncaught(ret') /\ UNCHANGED stdout
       ELSE PyPrint(prefix \o PyFormat(ret'.val)) /\ Advance(line)
    /\ UNCHANGED <<mode, threadVars>>

\* Line 22: print(greet("Jenkins")).
MainGreet ==
    /\ pc = "main22"
    /\ MainCallAndPrint("main22", Call("greet", MainName, PyNone), <<>>)

\* Line 23: print(f"2 + 3 = {add(2, 3)}").
MainAdd ==
    /\ pc = "main23"
    /\ MainCallAndPrint("main23", Call("add", PyInt(2), PyInt(3)), AddPrefix)

\* Line 24: print(f"4 * 5 = {multiply(4, 5)}").
MainMultiply ==
    /\ pc = "main24"
    /\ MainCallAndPrint("main24", Call("multiply", PyInt(4), PyInt(5)), MulPrefix)

MainStep == MainBanner \/ MainGreet \/ MainAdd \/ MainMultiply

\* A caller that imported the module calls one of its functions and does not
\* catch what it raises.
DoCall(c) ==
    /\ frame' = c
    /\ ret' = CallResult(c)
    /\ IF ret'.kind = "raise"
       THEN Uncaught(ret')
       ELSE pc' = "idle" /\ UNCHANGED <<stderr, exitCode>>
    /\ UNCHANGED <<mode, stdout, threadVars>>

CallGreet ==
    /\ pc = "idle"
    /\ \E name \in Values : DoCall(Call("greet", name, PyNone))

CallAdd ==
    /\ pc = "idle"
    /\ \E a \in Values, b \in Values : DoCall(Call("add", a, b))

CallMultiply ==
    /\ pc = "idle"
    /\ \E a \in Values, b \in Values : DoCall(Call("multiply", a, b))

Next == Load \/ MainBanner \/ MainGreet \/ MainAdd \/ MainMultiply
        \/ CallGreet \/ CallAdd \/ CallMultiply

Spec == Init /\ [][Next]_vars

\* The interpreter runs main's next statement whenever there is one.
FairSpec == Spec /\ WF_vars(Load) /\ WF_vars(MainStep)

\* ------------------------------------------------------ concurrent callers
ThreadValues == {PyStr(<<>>), PyStr(<<"a">>), PyInt(2)}

ThreadCalls ==
    {Call("greet", a, PyNone) : a \in ThreadValues}
    \cup {Call(op, a, b) : op \in {"add", "multiply"}, a \in ThreadValues, b \in ThreadValues}

\* Mutant: parameters are kept in one module-level slot shared by all calls.
SharedFrame(t) == 1

\* Each call binds its parameters in a frame of its own.
FrameOf(t) == t

ThreadInit ==
    /\ mode = "import"
    /\ pc = "idle"
    /\ frame = NoCall
    /\ ret = Return(PyNone)
    /\ stdout = <<>>
    /\ stderr = <<>>
    /\ exitCode = <<>>
    /\ frames = [t \in Threads |-> NoCall]
    /\ tpc = [t \in Threads |-> "idle"]
    /\ targs = [t \in Threads |-> NoCall]
    /\ tret = [t \in Threads |-> Return(PyNone)]

\* Thread t enters a function: its arguments are bound in the call's frame.
TCall(t) ==
    /\ tpc[t] = "idle"
    /\ \E c \in ThreadCalls :
         /\ targs' = [targs EXCEPT ![t] = c]
         /\ frames' = [frames EXCEPT ![FrameOf(t)] = c]
    /\ tpc' = [tpc EXCEPT ![t] = "body"]
    /\ UNCHANGED <<tret, procVars>>

TFinish(t, r) ==
    /\ tret' = [tret EXCEPT ![t] = r]
    /\ tpc' = [tpc EXCEPT ![t] = "done"]
    /\ UNCHANGED <<frames, targs, procVars>>

\* Line 7 in thread t.
TGreetTest(t) ==
    /\ tpc[t] = "body"
    /\ frames[FrameOf(t)].op = "greet"
    /\ tpc' = [tpc EXCEPT ![t] = IF GreetTest(frames[FrameOf(t)].a) THEN "line8" ELSE "line9"]
    /\ UNCHANGED <<frames, targs, tret, procVars>>

\* Line 8 in thread t.
TGreetRaise(t) ==
    /\ tpc[t] = "line8"
    /\ TFinish(t, GreetRaise)

\* Line 9 in thread t.
TGreetReturn(t) ==
    /\ tpc[t] = "line9"
    /\ TFinish(t, GreetReturn(frames[FrameOf(t)].a))

\* Line 13 in thread t.
TAdd(t) ==
    /\ tpc[t] = "body"
    /\ frames[FrameOf(t)].op = "add"
    /\ TFinish(t, add(frames[FrameOf(t)].a, frames[FrameOf(t)].b))

\* Line 17 in thread t.
TMultiply(t) ==
    /\ tpc[t] = "body"
    /\ frames[FrameOf(t)].op = "multiply"
    /\ TFinish(t, multiply(frames[FrameOf(t)].a, frames[FrameOf(t)].b))

ThreadNext ==
    \E t \in Threads :
        TCall(t) \/ TGreetTest(t) \/ TGreetRaise(t) \/ TGreetReturn(t) \/ TAdd(t) \/ TMultiply(t)

ThreadSpec == ThreadInit /\ [][ThreadNext]_vars

\* ---------------------------------------------------------------- claims
Falsy == {PyNone, PyInt(0), PyStr(<<>>)}

IsIntCall(op) == frame.op = op /\ frame.a.t = "int" /\ frame.b.t = "int"

\* C1: greet(n) with n a non-empty string returns exactly "Hello, " + n + "!",
\* n unchanged, and raises nothing.
C1_GreetFormatsName ==
    (frame.op = "greet" /\ frame.a.t = "str" /\ Len(frame.a.v) > 0)
        => /\ ret.kind = "return"
           /\ ret.val = PyStr(<<"H", "e", "l", "l", "o", ",", " ">> \o frame.a.v \o <<"!">>)

C1_Witness ==
    /\ frame = Call("greet", PyStr(<<"a", " ">>), PyNone)
    /\ ret.kind = "return"

\* C2: greet(name) raises ValueError("Name cannot be empty") exactly when name
\* is falsy; then no greeting is returned, and a truthy name raises nothing.
C2_GreetRaisesIffFalsy ==
    frame.op = "greet"
        => /\ (ret.kind = "raise") <=> (frame.a \in Falsy)
           /\ ret.kind = "raise"
                => ret.exc = "ValueError" /\ ret.msg = "Name cannot be empty" /\ ret.val = PyNone
           /\ ret.kind = "return" => ret.val.t = "str"

C2_Witness ==
    /\ frame = Call("greet", PyStr(<<>>), PyNone)
    /\ ret.kind = "raise"
    /\ ret.exc = "ValueError"

\* C3: for integers a and b, add(a, b) is a + b, equals add(b, a), and
\* add(x, -x) is 0.
C3_AddIntegers ==
    IsIntCall("add")
        => /\ ret = Return(PyInt(IntOf(frame.a) + IntOf(frame.b)))
           /\ ret = add(frame.b, frame.a)
           /\ IntOf(frame.a) = 0 - IntOf(frame.b) => ret.val = PyInt(0)

C3_Witness ==
    /\ frame = Call("add", PyInt(0 - 1), PyInt(1))
    /\ ret = Return(PyInt(0))

\* C4: for integers a and b, negative ones included, multiply(a, b) is the
\* product a * b with its sign.
C4_MultiplyIntegers ==
    IsIntCall("multiply")
        => /\ ret = Return(PyInt(IntOf(frame.a) * IntOf(frame.b)))
           /\ (IntOf(frame.a) < 0 /\ IntOf(frame.b) > 0) => IntOf(ret.val) < 0
           /\ (IntOf(frame.a) < 0 /\ IntOf(frame.b) < 0) => IntOf(ret.val) > 0

C4_Witness ==
    /\ frame = Call("multiply", PyInt(0 - 2), PyInt(3))
    /\ ret = Return(PyInt(0 - 6))

\* C5 as stated: whatever x is, a product of x and 0 that multiply returns is 0.
C5_ZeroAbsorbsAnyOperand ==
    (frame.op = "multiply" /\ (frame.a = PyInt(0) \/ frame.b = PyInt(0)) /\ ret.kind = "return")
        => ret.val = PyInt(0)

\* C5 amended: for every integer x, multiply(x, 0) and multiply(0, x) are 0;
\* for a string x they are the empty string, which is not 0.
C5_ZeroAbsorbsIntegers ==
    (frame.op = "multiply" /\ (frame.a = PyInt(0) \/ frame.b = PyInt(0)))
        => /\ IsIntCall("multiply") => ret = Return(PyInt(0))
           /\ (frame.a.t = "str" \/ frame.b.t = "str") => ret = Return(PyStr(<<>>))

C5_Witness ==
    /\ frame = Call("multiply", PyInt(3), PyInt(0))
    /\ ret = Return(PyInt(0))

MainOutput ==
    << Banner,
       <<"H", "e", "l", "l", "o", ",", " ", "J", "e", "n", "k", "i", "n", "s", "!">>,
       <<"2", " ", "+", " ", "3", " ", "=", " ", "5">>,
       <<"4", " ", "*", " ", "5", " ", "=", " ", "2", "0">> >>

\* C6: a run of main prints the banner, then greet's result, then add's, then
\* multiply's: at every moment the output is the part of that list printed so
\* far, each line once, and a finished run has printed all four.
C6_MainPrintsInOrder ==
    mode = "script"
        => /\ Len(stdout) <= Len(MainOutput)
           /\ stdout = SubSeq(MainOutput, 1, Len(stdout))
           /\ pc = "main22" => Len(stdout) = 1
           /\ pc = "main23" => Len(stdout) = 2
           /\ pc = "main24" => Len(stdout) = 3
           /\ pc = "exited" => stdout = MainOutput

C6_Witness ==
    /\ mode = "script"
    /\ pc = "exited"
    /\ Len(stdout) = 4

\* C7: under every interleaving of concurrent calls, a finished call has the
\* outcome (value or error) the same call has when it runs alone.
C7_ConcurrentCallsIndependent ==
    \A t \in Threads : tpc[t] = "done" => tret[t] = CallResult(targs[t])

C7_Witness ==
    /\ tpc[1] = "done" /\ targs[1] = Call("greet", PyStr(<<"a">>), PyNone)
    /\ tpc[2] = "done" /\ targs[2] = Call("add", PyInt(2), PyInt(2))
    /\ tret[1].kind = "return"

C9_NoOtherValidation ==
    (frame.op = "greet" /\ frame.a.t = "str" /\ Len(frame.a.v) > 0)
        => /\ ret.kind # "raise"
           /\ (\A i \in 1..Len(frame.a.v) : frame.a.v[i] = " ")
                => /\ Len(ret.val.v) = Len(frame.a.v) + 8
                   /\ SubSeq(ret.val.v, 8, 7 + Len(frame.a.v)) = frame.a.v

C9_Witness ==
    /\ frame = Call("greet", PyStr(<<" ", " ">>), PyNone)
    /\ ret.kind = "return"

\* C10: a run of main never reaches the error state and always ends with exit
\* code 0 after printing four lines.
C10_MainTerminatesWithZero ==
    /\ [](mode = "script" => pc # "crashed" /\ ret.kind # "raise")
    /\ (mode = "script") ~> (pc = "exited" /\ exitCode = <<0>> /\ Len(stdout) = 4)

C10_Witness ==
    /\ mode = "script"
    /\ pc = "exited"
    /\ exitCode = <<0>>
    /\ ret = Return(PyInt(20))

====
